---- MODULE Spec2Model ----
(***************************************************************************)
(* t-game: a player token moved over a 10x10 grid by keyboard input.       *)
(*                                                                         *)
(* The repository holds several versions of the same program; the model   *)
(* carries them, selected by the variable `variant`:                      *)
(*   "pause"  src/src/game.ts               InputManager, Escape pauses    *)
(*   "arrow"  src/unnamed/part_000:1-503    InputManager, WASD + arrows,   *)
(*                                          radius-aware bounds            *)
(*   "flag"   src/unnamed/part_001          module-level move flags        *)
(*   "event"  src/unnamed/part_000:504-627  no loop: a keydown listener    *)
(*                                          moves the player by 0.5        *)
(*                                                                         *)
(* Numbers.  Lengths are exact reals of the form a + b/sqrt(2), written    *)
(* <<a, b>> with integers a and b, in units of the player's speed (0.05    *)
(* grid cells): every value the program computes from the start position  *)
(* by axis steps (speed) and diagonal steps (speed/sqrt(2)) has this form. *)
(* Floating-point rounding is not modelled.  Times are integers, in ms.    *)
(***************************************************************************)
EXTENDS Integers, Sequences, FiniteSets, TLC

\* ------------------------------------------------------------ constants

GRID_ROWS == 10
GRID_COLS == 10
FPS == 60
\* one grid cell in model units: speed is 0.05 cell, so a cell is 20 units
UnitsPerCell == 20
\* new Player(new Vector2(0.5, 0.5), 0.2, "lightgreen", 0.05), in units
START == 10
RADIUS == 4
SPEED == 1
\* the FPS window, "currentTime > lastFPS + 1000"
FPS_WINDOW == 1000
\* the time origin of the model: performance.now() at construction
T0 == 0
\* the event-driven variant's "const speed = 0.5", in the same units
EVENT_SPEED == 10

\* --------------------------------------------------------------- bounds

\* no more than MaxTicks running ticks are taken from an initial state
MaxTicks == 4
\* the host clock is not advanced beyond MaxTime (ms)
MaxTime == 1502
\* the edge specification takes no more than MaxEdgeTicks running ticks
MaxEdgeTicks == 2
\* running ticks of the two-keys-per-direction specification
MaxPairTicks == 3

\* elapsed time offered between two deliveries of the host clock (ms)
ClockSteps == {0, 500, 501}
\* elapsed time offered by the edge specification: one frame
FrameSteps == {16}
\* edge specification: how many steps from a bound the player starts
EdgeOffsets == {0, 1}
\* how far a performance.now() read may be later than the read before it (ms)
ReadSkew == {0, 1}
\* a pause of the host longer than frameDuration seconds (a background tab)
StallMs == (1000 * 1000) \div FPS + 1

\* raw KeyboardEvent.key values delivered by the specifications
ClockKeys == {"Escape", "d", "D"}
MoveKeys == {"w", "a", "s", "d", "W"}
ArrowMoveKeys == {"w", "a", "d", "ArrowDown", "W"}
PairKeys == {"d", "ArrowRight", "w", "ArrowUp", "S"}
EventKeys == {"w", "a", "s", "d", "W", "A", "S", "D", "x", "ArrowUp"}

\* ------------------------------------------------------ exact arithmetic

Sgn(i) == IF i > 0 THEN 1 ELSE IF i < 0 THEN -1 ELSE 0

\* a + b/sqrt(2) >= 0
NonNeg(n) ==
  LET a == n[1]
      b == n[2]
  IN  CASE a >= 0 /\ b >= 0 -> TRUE
        [] a < 0 /\ b < 0   -> FALSE
        [] a >= 0 /\ b < 0  -> 2 * a * a >= b * b
        [] a < 0 /\ b >= 0  -> b * b >= 2 * a * a

\* n >= c and n <= c for an integer c
Geq(n, c) == NonNeg(<<n[1] - c, n[2]>>)
Leq(n, c) == NonNeg(<<c - n[1], -n[2]>>)
Plus(m, n) == <<m[1] + n[1], m[2] + n[2]>>
Times(n, k) == <<n[1] * k, n[2] * k>>
Zero == <<0, 0>>
\* m < n
Less(m, n) == ~NonNeg(<<m[1] - n[1], m[2] - n[2]>>)

\* twice the square of a number that is an integer or an integer over sqrt(2)
\* (the only numbers a direction vector holds)
Sq2(n) == CASE n[2] = 0 -> 2 * n[1] * n[1]
            [] n[1] = 0 -> n[2] * n[2]
SgnNum(n) == Sgn(n[1] + n[2])

\* String.prototype.toLowerCase on the key identifiers in use
toLowerCase(s) ==
  CASE s = "W" -> "w"
    [] s = "A" -> "a"
    [] s = "S" -> "s"
    [] s = "D" -> "d"
    [] s = "Escape" -> "escape"
    [] s = "ArrowUp" -> "arrowup"
    [] s = "ArrowDown" -> "arrowdown"
    [] s = "ArrowLeft" -> "arrowleft"
    [] s = "ArrowRight" -> "arrowright"
    [] OTHER -> s

\* ---------------------------------------------------------------- state

VARIABLES
  variant,          \* which version of the program runs
  GAMERUN,          \* let GAMERUN = false
  position,         \* player.position: [x, y], each a number <<a, b>>
  keys,             \* InputManager.keys: Set<string>
  moveUp, moveDown, moveLeft, moveRight,   \* the flag variant's flags
  lastTime, lastFPS, frameCount,           \* the frame clock
  paused, lastPausePressed,                \* game.ts pause state
  rafQueue,         \* gameLoop callbacks pending in requestAnimationFrame
  timers,           \* setTimeout callbacks pending (flag variant)
  now,              \* the host clock: the latest time it has delivered
  out,              \* what the latest gameLoop call drew and logged, in order
  reads,            \* the performance.now() values the latest gameLoop call read
  pausePressed,     \* game.ts gameLoop's pausePressed at the latest tick
  runTicks,         \* running ticks taken since the initial state
  emitCount,        \* FPS emits since the initial state
  boot              \* how far the script got: the canvases and 2D contexts
                    \* the page has, the stage, whether the player and the
                    \* key listeners exist, the error thrown

flags == <<moveUp, moveDown, moveLeft, moveRight>>
clock == <<lastTime, lastFPS, frameCount>>
pauseVars == <<paused, lastPausePressed, pausePressed>>
vars == <<variant, GAMERUN, position, keys, flags, clock, pauseVars,
          rafQueue, timers, now, out, reads, runTicks, emitCount, boot>>

Variants == {"pause", "arrow", "flag"}

GridW == GRID_COLS * UnitsPerCell
GridH == GRID_ROWS * UnitsPerCell

\* the four canvas elements the script looks up
Canvases == {"background", "objects", "events", "ui"}

\* the script has passed its canvas and context checks and built the
\* player and the key listeners
Booted == [stage |-> "ready", canvases |-> Canvases, contexts |-> Canvases,
           player |-> TRUE, listening |-> TRUE, error |-> "none"]

\* The state when the script has built the player, the clock and the input
\* listeners, just before "GAMERUN = true; gameLoop(performance.now())".
Init ==
  /\ boot = Booted
  /\ variant \in Variants
  /\ GAMERUN = FALSE
  /\ position = [x |-> <<START, 0>>, y |-> <<START, 0>>]
  /\ keys = {}
  /\ moveUp = FALSE /\ moveDown = FALSE /\ moveLeft = FALSE /\ moveRight = FALSE
  /\ lastTime = T0 /\ lastFPS = T0 /\ frameCount = 0
  /\ paused = FALSE /\ lastPausePressed = FALSE /\ pausePressed = FALSE
  /\ rafQueue = 0 /\ timers = 0
  /\ now = T0
  /\ out = <<>>
  /\ reads = <<>>
  /\ runTicks = 0 /\ emitCount = 0

\* ------------------------------------------------------------- Vector2

Vec(x, y) == [x |-> x, y |-> y]
ZeroVec == Vec(Zero, Zero)

\* Vector2.add
add(v, other) == Vec(Plus(v.x, other.x), Plus(v.y, other.y))

\* normalize as it would be if a zero length fell back to a unit vector
normalizeZeroToUnit(v) ==
  LET len2 == Sq2(v.x) + Sq2(v.y)
      comp(c) == CASE Sq2(c) = 0 -> Zero
                   [] Sq2(c) # 0 /\ Sq2(c) = len2 -> <<SgnNum(c), 0>>
                   [] Sq2(c) # 0 /\ 2 * Sq2(c) = len2 -> <<0, SgnNum(c)>>
  IN  IF len2 > 0 THEN Vec(comp(v.x), comp(v.y)) ELSE Vec(<<1, 0>>, Zero)

\* Vector2.normalize: length = sqrt(x*x + y*y); (x/length, y/length) when
\* length > 0, else (0, 0).  len2 is twice the squared length; a component c
\* with 2c^2 = len2 is +-1, one with 4c^2 = len2 is +-1/sqrt(2).
normalize(v) ==
  LET len2 == Sq2(v.x) + Sq2(v.y)
      comp(c) == CASE Sq2(c) = 0 -> Zero
                   [] Sq2(c) # 0 /\ Sq2(c) = len2 -> <<SgnNum(c), 0>>
                   [] Sq2(c) # 0 /\ 2 * Sq2(c) = len2 -> <<0, SgnNum(c)>>
  IN  IF len2 > 0 THEN Vec(comp(v.x), comp(v.y)) ELSE ZeroVec

\* -------------------------------------------------------------- Player

\* move as it would be with the lower bounds only
moveLowerOnly(direction) ==
  \E normalizedDirection \in {normalize(direction)} :
    LET newX == Plus(position.x, Times(normalizedDirection.x, SPEED))
        newY == Plus(position.y, Times(normalizedDirection.y, SPEED))
    IN  position' =
          [x |-> IF Geq(newX, 0) THEN newX ELSE position.x,
           y |-> IF Geq(newY, 0) THEN newY ELSE position.y]

\* Player.move of game.ts and of the flag variant: bounds 0..GRID
move(direction) ==
  \E normalizedDirection \in {normalize(direction)} :
    LET deltaX == Times(normalizedDirection.x, SPEED)
        deltaY == Times(normalizedDirection.y, SPEED)
        newX == Plus(position.x, deltaX)
        newY == Plus(position.y, deltaY)
    IN  position' =
          [x |-> IF Geq(newX, 0) /\ Leq(newX, GridW) THEN newX ELSE position.x,
           y |-> IF Geq(newY, 0) /\ Leq(newY, GridH) THEN newY ELSE position.y]

\* moveRadius as it would be if it forgot the radius
moveRadiusNoRadius(direction) ==
  \E normalizedDirection \in {normalize(direction)} :
    LET newX == Plus(position.x, Times(normalizedDirection.x, SPEED))
        newY == Plus(position.y, Times(normalizedDirection.y, SPEED))
    IN  position' =
          [x |-> IF Geq(newX, 0) /\ Leq(newX, GridW) THEN newX ELSE position.x,
           y |-> IF Geq(newY, 0) /\ Leq(newY, GridH) THEN newY ELSE position.y]

\* Player.move of the arrow variant: bounds radius..GRID - radius
moveRadius(direction) ==
  \E normalizedDirection \in {normalize(direction)} :
    LET deltaX == Times(normalizedDirection.x, SPEED)
        deltaY == Times(normalizedDirection.y, SPEED)
        newX == Plus(position.x, deltaX)
        newY == Plus(position.y, deltaY)
    IN  position' =
          [x |-> IF Geq(Plus(newX, <<-RADIUS, 0>>), 0)
                      /\ Leq(Plus(newX, <<RADIUS, 0>>), GridW)
                 THEN newX ELSE position.x,
           y |-> IF Geq(Plus(newY, <<-RADIUS, 0>>), 0)
                      /\ Leq(Plus(newY, <<RADIUS, 0>>), GridH)
                 THEN newY ELSE position.y]

\* -------------------------------------------------------- InputManager

\* isKeyPressed as it would be if it did not look at its argument
isKeyPressedAnyKey(key) == keys # {}

\* InputManager.isKeyPressed
isKeyPressed(key) == toLowerCase(key) \in keys

\* ------------------------------------------------------------- outputs

NoPos == Vec(Zero, Zero)
Log(msg) == [op |-> msg, n |-> 0, at |-> NoPos]
\* console.log(`Player Movement: ${movement.array()}`)
LogMovement(movement) == [op |-> "log Player Movement", n |-> 0, at |-> movement]
\* drawFPS(uiCtx, frameCount) and console.log(`FPS: ${frameCount}`)
DrawFPS(n) == [op |-> "drawFPS", n |-> n, at |-> NoPos]
LogFPS(n) == [op |-> "log FPS", n |-> n, at |-> NoPos]
\* updateLayer(objCtx, ctx => player.draw(ctx))
Draw(pos) == [op |-> "draw", n |-> 0, at |-> pos]

\* ------------------------------------------------- the steps of a tick

\* movementOf as it would be with "else if" between up and down and between
\* left and right: the first of two opposite directions wins
movementOfFirstWins(up, down, left, right, dt) ==
  LET m0 == ZeroVec
      m1 == IF up THEN add(m0, Vec(Zero, <<-(SPEED * dt), 0>>)) ELSE m0
      m2 == IF down /\ ~up THEN add(m1, Vec(Zero, <<SPEED * dt, 0>>)) ELSE m1
      m3 == IF left THEN add(m2, Vec(<<-(SPEED * dt), 0>>, Zero)) ELSE m2
      m4 == IF right /\ ~left THEN add(m3, Vec(<<SPEED * dt, 0>>, Zero)) ELSE m3
  IN  m4

\* The movement vector gameLoop accumulates from the held directions
\* (game.ts 290-294, flag variant 270-274).  dt stands for
\* (currentTime - lastTime) / 1000 up to the positive factor 1/1000, which
\* normalize cancels.
movementOf(up, down, left, right, dt) ==
  LET m0 == ZeroVec
      m1 == IF up THEN add(m0, Vec(Zero, <<-(SPEED * dt), 0>>)) ELSE m0
      m2 == IF down THEN add(m1, Vec(Zero, <<SPEED * dt, 0>>)) ELSE m1
      m3 == IF left THEN add(m2, Vec(<<-(SPEED * dt), 0>>, Zero)) ELSE m2
      m4 == IF right THEN add(m3, Vec(<<SPEED * dt, 0>>, Zero)) ELSE m3
  IN  m4

\* handleInput as it would be without the arrow keys
handleInputLettersOnly(dt) ==
  LET movement == movementOf(isKeyPressed("w"), isKeyPressed("s"),
                             isKeyPressed("a"), isKeyPressed("d"), dt)
  IN  IF movement.x # Zero \/ movement.y # Zero THEN normalize(movement) ELSE ZeroVec

\* handleInput of the arrow variant
handleInput(dt) ==
  LET movement == movementOf(isKeyPressed("w") \/ isKeyPressed("arrowup"),
                             isKeyPressed("s") \/ isKeyPressed("arrowdown"),
                             isKeyPressed("a") \/ isKeyPressed("arrowleft"),
                             isKeyPressed("d") \/ isKeyPressed("arrowright"), dt)
  IN  IF movement.x # Zero \/ movement.y # Zero THEN normalize(movement) ELSE ZeroVec

\* sampleFPS as it would be with ">=" for ">"
sampleFPSAtWindow(currentTime) ==
  IF currentTime >= lastFPS + FPS_WINDOW
  THEN [lastFPS |-> currentTime, frameCount |-> 0 + 1, emits |-> 1,
        out |-> <<DrawFPS(frameCount), LogFPS(frameCount)>>]
  ELSE [lastFPS |-> lastFPS, frameCount |-> frameCount + 1, emits |-> 0, out |-> <<>>]

\* sampleFPS as it would be with frameCount++ ahead of the sample
sampleFPSCountFirst(currentTime) ==
  IF currentTime > lastFPS + FPS_WINDOW
  THEN [lastFPS |-> currentTime, frameCount |-> 0, emits |-> 1,
        out |-> <<DrawFPS(frameCount + 1), LogFPS(frameCount + 1)>>]
  ELSE [lastFPS |-> lastFPS, frameCount |-> frameCount + 1, emits |-> 0, out |-> <<>>]

\* The FPS sample inside gameLoop (game.ts 282-288, flag variant 261-267),
\* the frameCount++ included.
sampleFPS(currentTime) ==
  IF currentTime > lastFPS + FPS_WINDOW
  THEN [lastFPS |-> currentTime, frameCount |-> 0 + 1, emits |-> 1,
        out |-> <<DrawFPS(frameCount), LogFPS(frameCount)>>]
  ELSE [lastFPS |-> lastFPS, frameCount |-> frameCount + 1, emits |-> 0, out |-> <<>>]

\* updateFPS of the arrow variant, which reads performance.now() once to
\* compare (p1) and once more to store (p2), followed by gameLoop's frameCount++
updateFPS(p1, p2) ==
  IF p1 > lastFPS + FPS_WINDOW
  THEN [lastFPS |-> p2, frameCount |-> 0 + 1, emits |-> 1,
        out |-> <<DrawFPS(frameCount), LogFPS(frameCount)>>]
  ELSE [lastFPS |-> lastFPS, frameCount |-> frameCount + 1, emits |-> 0, out |-> <<>>]


\* ---------------------------------------------------------- gameLoop

\* Every gameLoop below is the body of one call gameLoop(currentTime):
\* `run` is GAMERUN as the call reads it, q the number of callbacks pending
\* besides the one being run, and limit the bound on the running ticks of
\* the specification.  Callers set GAMERUN', variant'.

\* pausedTick as it would be if paused frames were counted
pausedTickCounts(q, pauseLog) ==
  /\ rafQueue' = q + 1
  /\ out' = pauseLog
  /\ frameCount' = frameCount + 1
  /\ UNCHANGED <<position, lastTime, lastFPS, runTicks, emitCount>>

\* pausedTick as it would be with a bare "return"
pausedTickNoSchedule(q, pauseLog) ==
  /\ rafQueue' = q
  /\ out' = pauseLog
  /\ UNCHANGED <<position, clock, runTicks, emitCount>>

\* gameLoop of game.ts while paused: "requestAnimationFrame(gameLoop); return;"
pausedTick(q, pauseLog) ==
  /\ rafQueue' = q + 1
  /\ out' = pauseLog
  /\ UNCHANGED <<position, clock, runTicks, emitCount>>

\* gameLoop of game.ts
gameLoop(currentTime, run, q, limit) ==
  LET pressed == isKeyPressed("Escape")
      toggle == pressed /\ ~lastPausePressed
      nowPaused == IF toggle THEN ~paused ELSE paused
      pauseLog == IF toggle
                  THEN <<Log(IF nowPaused THEN "Game Paused" ELSE "Game Resumed")>>
                  ELSE <<>>
      dt == currentTime - lastTime
      fps == sampleFPS(currentTime)
  IN  /\ reads' = <<>>
      /\ now' = currentTime
      /\ UNCHANGED <<keys, flags, timers>>
      /\ IF ~run
         THEN /\ rafQueue' = q
              /\ out' = <<>>
              /\ UNCHANGED <<position, clock, pauseVars, runTicks, emitCount>>
         ELSE /\ paused' = nowPaused
              /\ pausePressed' = pressed
              /\ UNCHANGED lastPausePressed
              /\ IF nowPaused
                 THEN pausedTick(q, pauseLog)
                 ELSE /\ runTicks < limit
                      /\ lastTime' = currentTime
                      /\ lastFPS' = fps.lastFPS
                      /\ frameCount' = fps.frameCount
                      \* "if (movement.x !== 0 || movement.y !== 0)
                      \* movement.normalize();": this normalize returns a
                      \* new vector, which is dropped
                      /\ \E movement \in {movementOf(isKeyPressed("w"), isKeyPressed("s"),
                                                     isKeyPressed("a"), isKeyPressed("d"), dt)} :
                           /\ move(movement)
                           /\ out' = pauseLog \o fps.out
                                      \o <<LogMovement(movement), Draw(position')>>
                      /\ rafQueue' = q + 1
                      /\ runTicks' = runTicks + 1
                      /\ emitCount' = emitCount + fps.emits

\* gameLoopArrow as it would be with the redraw ahead of player.move
gameLoopArrowDrawFirst(currentTime, p1, p2, run, q, limit) ==
  LET dt == currentTime - lastTime
      fps == updateFPS(p1, p2)
  IN  /\ UNCHANGED <<keys, flags, timers, pauseVars>>
      /\ IF ~run
         THEN /\ rafQueue' = q
              /\ out' = <<>>
              /\ now' = currentTime
              /\ reads' = <<>>
              /\ UNCHANGED <<position, clock, runTicks, emitCount>>
         ELSE /\ runTicks < limit
              /\ lastTime' = currentTime
              /\ lastFPS' = fps.lastFPS
              /\ frameCount' = fps.frameCount
              /\ now' = IF fps.emits = 1 THEN p2 ELSE p1
              /\ reads' = IF fps.emits = 1 THEN <<p1, p2>> ELSE <<p1>>
              /\ \E movement \in {handleInput(dt)} : moveRadius(movement)
              /\ out' = fps.out \o <<Draw(position)>>
              /\ rafQueue' = q + 1
              /\ runTicks' = runTicks + 1
              /\ emitCount' = emitCount + fps.emits

\* gameLoop of the arrow variant; p1 and p2 are the values updateFPS gets
\* from performance.now()
gameLoopArrow(currentTime, p1, p2, run, q, limit) ==
  LET dt == currentTime - lastTime
      fps == updateFPS(p1, p2)
  IN  /\ UNCHANGED <<keys, flags, timers, pauseVars>>
      /\ IF ~run
         THEN /\ rafQueue' = q
              /\ out' = <<>>
              /\ now' = currentTime
              /\ reads' = <<>>
              /\ UNCHANGED <<position, clock, runTicks, emitCount>>
         ELSE /\ runTicks < limit
              /\ lastTime' = currentTime
              /\ lastFPS' = fps.lastFPS
              /\ frameCount' = fps.frameCount
              /\ now' = IF fps.emits = 1 THEN p2 ELSE p1
              /\ reads' = IF fps.emits = 1 THEN <<p1, p2>> ELSE <<p1>>
              /\ \E movement \in {handleInput(dt)} : moveRadius(movement)
              /\ out' = fps.out \o <<Draw(position')>>
              /\ rafQueue' = q + 1
              /\ runTicks' = runTicks + 1
              /\ emitCount' = emitCount + fps.emits

\* gameLoop of the flag variant.  "dt > frameDuration" compares seconds with
\* the milliseconds of frameDuration = 1000 / FPS.
gameLoopFlag(currentTime, run, q, limit) ==
  LET dt == currentTime - lastTime
      fps == sampleFPS(currentTime)
      \* here normalize works in place
      normalized(movement) == IF movement.x # Zero \/ movement.y # Zero
                              THEN normalize(movement) ELSE movement
      direct == dt * FPS > 1000 * 1000
  IN  /\ reads' = <<>>
      /\ now' = currentTime
      /\ UNCHANGED <<keys, flags, pauseVars>>
      /\ IF ~run
         THEN /\ rafQueue' = q
              /\ out' = <<>>
              /\ UNCHANGED <<position, clock, timers, runTicks, emitCount>>
         ELSE /\ runTicks < limit
              /\ lastTime' = currentTime
              /\ lastFPS' = fps.lastFPS
              /\ frameCount' = fps.frameCount
              /\ \E movement0 \in {movementOf(moveUp, moveDown, moveLeft, moveRight, dt)} :
                   \E movement \in {normalized(movement0)} :
                     /\ move(movement)
                     /\ out' = fps.out \o <<LogMovement(movement), Draw(position')>>
              /\ rafQueue' = IF direct THEN q + 1 ELSE q
              /\ timers' = IF direct THEN timers ELSE timers + 1
              /\ runTicks' = runTicks + 1
              /\ emitCount' = emitCount + fps.emits

\* one call of the variant's gameLoop
RunLoop(currentTime, e1, e2, run, q, limit) ==
  CASE variant = "pause" -> gameLoop(currentTime, run, q, limit)
    [] variant = "arrow" -> gameLoopArrow(currentTime, currentTime + e1,
                                          currentTime + e1 + e2, run, q, limit)
    [] variant = "flag" -> gameLoopFlag(currentTime, run, q, limit)

\* ------------------------------------------------------------- actions

\* the script as it would be without the check of the 2D contexts
runScriptNoContextCheck ==
  /\ boot.stage = "load"
  /\ boot' = IF boot.canvases # Canvases
             THEN [boot EXCEPT !.stage = "failed",
                               !.error = "One or more canvases not found"]
             ELSE [boot EXCEPT !.stage = "ready", !.player = TRUE, !.listening = TRUE]
  /\ UNCHANGED <<variant, GAMERUN, position, keys, flags, clock, pauseVars,
                 rafQueue, timers, now, out, reads, runTicks, emitCount>>

\* The script from its first statement to the last one before
\* "GAMERUN = true": the lookup of the four canvases, the check that none is
\* null, getContext("2d") on each, the check that none is null, then the
\* player, the clock and the key listeners.  A throw ends the script.
runScript ==
  /\ boot.stage = "load"
  /\ boot' = CASE boot.canvases # Canvases ->
                   [boot EXCEPT !.stage = "failed",
                                !.error = "One or more canvases not found"]
               [] boot.canvases = Canvases /\ boot.contexts # Canvases ->
                   [boot EXCEPT !.stage = "failed",
                                !.error = "2D context is not supported on one or more canvases"]
               [] OTHER ->
                   [boot EXCEPT !.stage = "ready", !.player = TRUE, !.listening = TRUE]
  /\ UNCHANGED <<variant, GAMERUN, position, keys, flags, clock, pauseVars,
                 rafQueue, timers, now, out, reads, runTicks, emitCount>>

\* "GAMERUN = true; gameLoop(performance.now());" at the end of the script
Start ==
  /\ boot.stage = "ready"
  /\ ~GAMERUN
  /\ GAMERUN' = TRUE
  /\ UNCHANGED <<variant, boot>>
  /\ \E d \in ReadSkew, e1 \in ReadSkew, e2 \in ReadSkew :
       RunLoop(now + d, e1, e2, TRUE, rafQueue, MaxTicks)

\* the host runs a pending animation-frame callback, d ms after the latest
\* time it delivered
Tick(d, limit) ==
  /\ rafQueue > 0
  /\ now + d <= MaxTime
  /\ UNCHANGED <<GAMERUN, variant, boot>>
  /\ \E e1 \in ReadSkew, e2 \in ReadSkew :
       RunLoop(now + d, e1, e2, GAMERUN, rafQueue - 1, limit)

\* the same after the host was suspended for StallMs
Stall ==
  /\ rafQueue > 0
  /\ now <= MaxTime
  /\ UNCHANGED <<GAMERUN, variant, boot>>
  /\ \E e1 \in ReadSkew, e2 \in ReadSkew :
       RunLoop(now + StallMs, e1, e2, GAMERUN, rafQueue - 1, MaxTicks)

\* Timeout as it would be with setInterval for setTimeout
TimeoutRepeats ==
  /\ timers > 0
  /\ timers' = timers
  /\ rafQueue' = rafQueue + 1
  /\ UNCHANGED <<variant, GAMERUN, position, keys, flags, clock, pauseVars,
                 now, out, reads, runTicks, emitCount, boot>>

\* "setTimeout(() => requestAnimationFrame(gameLoop), frameDuration - dt)"
\* comes due
Timeout ==
  /\ timers > 0
  /\ timers' = timers - 1
  /\ rafQueue' = rafQueue + 1
  /\ UNCHANGED <<variant, GAMERUN, position, keys, flags, clock, pauseVars,
                 now, out, reads, runTicks, emitCount, boot>>

\* onKeyDown as it would be without toLowerCase
onKeyDownCaseSensitive(key) ==
  /\ keys' = keys \cup {key}
  /\ UNCHANGED flags

\* InputManager.onKeyDown (type is always 'keyboard')
onKeyDown(key) ==
  /\ keys' = keys \cup {toLowerCase(key)}
  /\ UNCHANGED flags

\* onKeyUp as it would be without toLowerCase
onKeyUpCaseSensitive(key) ==
  /\ keys' = keys \ {key}
  /\ UNCHANGED flags

\* InputManager.onKeyUp
onKeyUp(key) ==
  /\ keys' = keys \ {toLowerCase(key)}
  /\ UNCHANGED flags

\* the flag variant's keydown listener (v = TRUE) and keyup listener
\* (v = FALSE): the switch on event.key (their console.log is not recorded)
setFlag(key, v) ==
  /\ moveUp' = IF key \in {"w", "W"} THEN v ELSE moveUp
  /\ moveLeft' = IF key \in {"a", "A"} THEN v ELSE moveLeft
  /\ moveDown' = IF key \in {"s", "S"} THEN v ELSE moveDown
  /\ moveRight' = IF key \in {"d", "D"} THEN v ELSE moveRight
  /\ UNCHANGED keys

keydown(key) == setFlag(key, TRUE)
keyup(key) == setFlag(key, FALSE)

\* a keydown event reaches the document (listeners run between callbacks,
\* once the script has ended)
KeyDown(key) ==
  /\ GAMERUN \/ boot.stage = "failed"
  /\ IF boot.listening
     THEN IF variant = "flag" THEN keydown(key) ELSE onKeyDown(key)
     ELSE UNCHANGED <<keys, flags>>
  /\ UNCHANGED <<variant, GAMERUN, position, clock, pauseVars, rafQueue,
                 timers, now, out, reads, runTicks, emitCount, boot>>

\* a keyup event reaches the document
KeyUp(key) ==
  /\ GAMERUN \/ boot.stage = "failed"
  /\ IF boot.listening
     THEN IF variant = "flag" THEN keyup(key) ELSE onKeyUp(key)
     ELSE UNCHANGED <<keys, flags>>
  /\ UNCHANGED <<variant, GAMERUN, position, clock, pauseVars, rafQueue,
                 timers, now, out, reads, runTicks, emitCount, boot>>

\* ------------------------------------------------------ specifications

\* From construction, with the clock in coarse steps and the keys Escape and d.
Next ==
  \/ Start
  \/ \E d \in ClockSteps : Tick(d, MaxTicks)
  \/ Stall
  \/ Timeout
  \/ \E k \in ClockKeys : KeyDown(k)
  \/ \E k \in ClockKeys : KeyUp(k)

Spec == Init /\ [][Next]_vars

\* The same with the host's scheduling: a requested animation frame is
\* delivered and a timer that was set comes due.
FairSpec ==
  /\ Spec
  /\ WF_vars(\E d \in ClockSteps : Tick(d, MaxTicks))
  /\ WF_vars(Timeout)



\* The coordinates the edge specification starts from, all reached from
\* START by steps along one axis: those EdgeOffsets steps inside a bound lo
\* or hi of the variant, and the coordinate one radius inside the far edge.
EdgeCoords(lo, hi) ==
  {lo + o : o \in EdgeOffsets} \cup {hi - o : o \in EdgeOffsets}
    \cup {GridW - RADIUS}

LowBound == IF variant = "arrow" THEN RADIUS ELSE 0
HighBound == IF variant = "arrow" THEN GridW - RADIUS ELSE GridW

\* A running game whose player has been walked, along the axes, to a place
\* near an edge, taken at the end of a tick that has just emitted the FPS
\* (lastFPS = lastTime, frameCount = 1), every key released since.  The
\* program reads its clock only in the differences currentTime - lastTime
\* and currentTime - lastFPS, so times are counted from that tick.
InitEdge ==
  /\ boot = Booted
  /\ variant \in Variants
  /\ GAMERUN = TRUE
  /\ \E cx \in EdgeCoords(LowBound, HighBound), cy \in EdgeCoords(LowBound, HighBound) :
       position = [x |-> <<cx, 0>>, y |-> <<cy, 0>>]
  /\ keys = {}
  /\ moveUp = FALSE /\ moveDown = FALSE /\ moveLeft = FALSE /\ moveRight = FALSE
  /\ lastTime = T0 /\ lastFPS = T0 /\ frameCount = 1
  /\ paused = FALSE /\ lastPausePressed = FALSE /\ pausePressed = FALSE
  /\ rafQueue = 1 /\ timers = 0
  /\ now = T0
  /\ out = <<>>
  /\ reads = <<>>
  /\ runTicks = 0 /\ emitCount = 0

EdgeKeys == IF variant = "arrow" THEN ArrowMoveKeys ELSE MoveKeys

\* Near the edges, one frame per tick, with the movement keys.
NextEdge ==
  \/ \E d \in FrameSteps : Tick(d, MaxEdgeTicks)
  \/ Timeout
  \/ \E k \in EdgeKeys : KeyDown(k)
  \/ \E k \in EdgeKeys : KeyUp(k)

SpecEdge == InitEdge /\ [][NextEdge]_vars

\* The page with any of its canvases and 2D contexts missing (a context
\* only on a canvas that exists), the script about to run.
InitBoot ==
  /\ \E c \in SUBSET Canvases : \E x \in SUBSET c :
       boot = [stage |-> "load", canvases |-> c, contexts |-> x,
               player |-> FALSE, listening |-> FALSE, error |-> "none"]
  /\ variant \in Variants
  /\ GAMERUN = FALSE
  /\ position = [x |-> <<START, 0>>, y |-> <<START, 0>>]
  /\ keys = {}
  /\ moveUp = FALSE /\ moveDown = FALSE /\ moveLeft = FALSE /\ moveRight = FALSE
  /\ lastTime = T0 /\ lastFPS = T0 /\ frameCount = 0
  /\ paused = FALSE /\ lastPausePressed = FALSE /\ pausePressed = FALSE
  /\ rafQueue = 0 /\ timers = 0
  /\ now = T0
  /\ out = <<>>
  /\ reads = <<>>
  /\ runTicks = 0 /\ emitCount = 0

NextBoot ==
  \/ runScript
  \/ Next

SpecBoot == InitBoot /\ [][NextBoot]_vars

\* ------------------------------------------- the event-driven variant
\* (part_000 from line 504: one canvas, no game loop, the player a Vector2)

\* console.log(`Player Pos: ${player1.array()}`)
LogPos(pos) == [op |-> "log Player Pos", n |-> 0, at |-> pos]

\* updateContext(ctx): clear, background, grid, log, drawCircle(player1)
updateContext(pos) == <<LogPos(pos), Draw(pos)>>

\* the keydown listener as it would be with ">" and "<" for ">=" and "<="
keydownMoveStrict(key) ==
  LET x == position.x[1]
      y == position.y[1]
      at(nx, ny) == [x |-> <<nx, 0>>, y |-> <<ny, 0>>]
      to == CASE key \in {"w", "W"} -> IF y - EVENT_SPEED > 0 THEN at(x, y - EVENT_SPEED) ELSE position
              [] key \in {"a", "A"} -> IF x - EVENT_SPEED > 0 THEN at(x - EVENT_SPEED, y) ELSE position
              [] key \in {"s", "S"} -> IF y + EVENT_SPEED < GridH THEN at(x, y + EVENT_SPEED) ELSE position
              [] key \in {"d", "D"} -> IF x + EVENT_SPEED < GridW THEN at(x + EVENT_SPEED, y) ELSE position
              [] OTHER -> position
  IN  /\ variant = "event"
      /\ position' = to
      /\ out' = updateContext(to)
      /\ UNCHANGED <<variant, GAMERUN, keys, flags, clock, pauseVars, rafQueue,
                     timers, now, reads, runTicks, emitCount, boot>>

\* the keydown listener: the switch on event.key, then updateContext(ctx)
\* (the console.log of the direction is not recorded)
keydownMove(key) ==
  LET x == position.x[1]
      y == position.y[1]
      at(nx, ny) == [x |-> <<nx, 0>>, y |-> <<ny, 0>>]
      to == CASE key \in {"w", "W"} -> IF y - EVENT_SPEED >= 0 THEN at(x, y - EVENT_SPEED) ELSE position
              [] key \in {"a", "A"} -> IF x - EVENT_SPEED >= 0 THEN at(x - EVENT_SPEED, y) ELSE position
              [] key \in {"s", "S"} -> IF y + EVENT_SPEED <= GridH THEN at(x, y + EVENT_SPEED) ELSE position
              [] key \in {"d", "D"} -> IF x + EVENT_SPEED <= GridW THEN at(x + EVENT_SPEED, y) ELSE position
              [] OTHER -> position
  IN  /\ variant = "event"
      /\ position' = to
      /\ out' = updateContext(to)
      /\ UNCHANGED <<variant, GAMERUN, keys, flags, clock, pauseVars, rafQueue,
                     timers, now, reads, runTicks, emitCount, boot>>

\* The event-driven script has run: canvas "game" found, player1 at
\* (0.5, 0.5), the keydown listener registered; nothing drawn of the player.
InitEvent ==
  /\ variant = "event"
  /\ boot = [Booted EXCEPT !.canvases = {"game"}, !.contexts = {"game"}]
  /\ GAMERUN = FALSE
  /\ position = [x |-> <<START, 0>>, y |-> <<START, 0>>]
  /\ keys = {}
  /\ moveUp = FALSE /\ moveDown = FALSE /\ moveLeft = FALSE /\ moveRight = FALSE
  /\ lastTime = T0 /\ lastFPS = T0 /\ frameCount = 0
  /\ paused = FALSE /\ lastPausePressed = FALSE /\ pausePressed = FALSE
  /\ rafQueue = 0 /\ timers = 0
  /\ now = T0
  /\ out = <<>>
  /\ reads = <<>>
  /\ runTicks = 0 /\ emitCount = 0

NextEvent == \E k \in EventKeys : keydownMove(k)

SpecEvent == InitEvent /\ [][NextEvent]_vars

\* The arrow variant from construction, one frame per tick, with both keys
\* of two directions.
InitPair == Init /\ variant = "arrow"

NextPair ==
  \/ Start
  \/ \E d \in FrameSteps : Tick(d, MaxPairTicks)
  \/ \E k \in PairKeys : KeyDown(k)
  \/ \E k \in PairKeys : KeyUp(k)

SpecPair == InitPair /\ [][NextPair]_vars


\* ============================================================== claims

Range(f) == {f[i] : i \in DOMAIN f}

\* a step that is one running tick of gameLoop
RunningTick == runTicks' = runTicks + 1

\* the directions commanded by what is held
HeldUp == CASE variant = "flag" -> moveUp
            [] variant = "pause" -> "w" \in keys
            [] variant = "arrow" -> "w" \in keys \/ "arrowup" \in keys
HeldDown == CASE variant = "flag" -> moveDown
              [] variant = "pause" -> "s" \in keys
              [] variant = "arrow" -> "s" \in keys \/ "arrowdown" \in keys
HeldLeft == CASE variant = "flag" -> moveLeft
              [] variant = "pause" -> "a" \in keys
              [] variant = "arrow" -> "a" \in keys \/ "arrowleft" \in keys
HeldRight == CASE variant = "flag" -> moveRight
               [] variant = "pause" -> "d" \in keys
               [] variant = "arrow" -> "d" \in keys \/ "arrowright" \in keys

\* the candidate position of a tick with a positive dt: one step of length
\* SPEED along the sum of the held directions
DirX == (IF HeldRight THEN 1 ELSE 0) - (IF HeldLeft THEN 1 ELSE 0)
DirY == (IF HeldDown THEN 1 ELSE 0) - (IF HeldUp THEN 1 ELSE 0)
StepOf(d, other) == IF other = 0 THEN <<d * SPEED, 0>> ELSE <<0, d * SPEED>>
CandX == Plus(position.x, StepOf(DirX, DirY))
CandY == Plus(position.y, StepOf(DirY, DirX))
InBounds(c) == Geq(c, LowBound) /\ Leq(c, HighBound)

\* C1: in the radius-aware (arrow) variant the player stays a radius inside
\* the grid: radius <= x <= GRID_COLS - radius and radius <= y <= GRID_ROWS - radius.
C1_RadiusBounds ==
  variant = "arrow" =>
    /\ Geq(position.x, RADIUS) /\ Leq(position.x, GridW - RADIUS)
    /\ Geq(position.y, RADIUS) /\ Leq(position.y, GridH - RADIUS)

\* C1 witness: the arrow variant's player stands on the far bound of x after
\* a diagonal step that moved y only.
C1_Witness ==
  /\ variant = "arrow"
  /\ position.x = <<GridW - RADIUS, 0>>
  /\ position.y[2] = 1
  /\ runTicks > 0

\* C2 (as claimed): on a tick of game.ts the paused flag flips exactly when
\* Escape is held at this tick and was not held at the tick before.  (A
\* step of game.ts that leaves the held keys alone is a tick.)
C2_EdgeTriggered ==
  [][(variant = "pause" /\ GAMERUN' /\ UNCHANGED <<keys, flags>>)
       => ((paused' # paused) <=> (isKeyPressed("Escape") /\ ~pausePressed))]_vars

\* C3 (as claimed): a running tick with "right" the only held direction and
\* the candidate x in bounds adds exactly speed to x and leaves y, whatever dt.
C3_RightMovesBySpeed ==
  [][(RunningTick /\ HeldRight /\ ~HeldLeft /\ ~HeldUp /\ ~HeldDown
        /\ InBounds(Plus(position.x, <<SPEED, 0>>)))
       => (position'.x = Plus(position.x, <<SPEED, 0>>) /\ position'.y = position.y)]_vars

\* C4 (as claimed): the axes are checked independently, and a player at
\* x = GRID_COLS - radius with right and down held does not increase x.
C4_AsClaimed ==
  [][(RunningTick /\ lastTime' > lastTime)
       => /\ position'.x = IF InBounds(CandX) THEN CandX ELSE position.x
          /\ position'.y = IF InBounds(CandY) THEN CandY ELSE position.y
          /\ (position.x = <<GridW - RADIUS, 0>> /\ DirX = 1 /\ DirY = 1)
               => position'.x = position.x]_vars

\* C4, the part every variant keeps: on a tick with dt > 0 each axis takes
\* its candidate exactly when the candidate is within the variant's bounds
\* and is left alone otherwise; a player on the variant's own upper bound
\* of x (GRID_COLS - radius in the arrow variant, GRID_COLS in the others)
\* with right and down held keeps its x and, the candidate y being in
\* bounds, increases its y.
C4_AxisIndependent ==
  [][(RunningTick /\ lastTime' > lastTime)
       => /\ position'.x = IF InBounds(CandX) THEN CandX ELSE position.x
          /\ position'.y = IF InBounds(CandY) THEN CandY ELSE position.y
          /\ (position.x = <<HighBound, 0>> /\ DirX = 1 /\ DirY = 1)
               => /\ position'.x = position.x
                  /\ InBounds(CandY) =>
                       /\ position'.y = Plus(position.y, <<0, SPEED>>)
                       /\ Less(position.y, position'.y)]_vars

\* C4, the failing state: in game.ts or the flag variant the player has
\* stepped right and down from x = GRID_COLS - radius.
C4_PastRadius ==
  /\ variant # "arrow"
  /\ position.x = <<GridW - RADIUS, 1>>
  /\ runTicks > 0

\* C5: a running tick with exactly two opposite directions held leaves the
\* position unchanged, and the movement vector it logs (game.ts, flag
\* variant) is (0, 0).
C5_OppositeCancel ==
  [][(RunningTick /\ ((HeldUp /\ HeldDown /\ ~HeldLeft /\ ~HeldRight)
                       \/ (HeldLeft /\ HeldRight /\ ~HeldUp /\ ~HeldDown)))
       => /\ position' = position
          /\ variant # "arrow" => LogMovement(ZeroVec) \in Range(out')]_vars

\* C5 witness: after a tick that logged a zero movement, up and down are
\* held and the player is where the edge specification put it.
C5_Witness ==
  /\ HeldUp /\ HeldDown /\ ~HeldLeft /\ ~HeldRight
  /\ runTicks = 1
  /\ LogMovement(ZeroVec) \in Range(out)
  /\ position.x[2] = 0 /\ position.y[2] = 0


\* what a tick emitted as the FPS: drawFPS and the console line
Emitted(o, n) == DrawFPS(n) \in Range(o) /\ LogFPS(n) \in Range(o)
NoEmit(o) == \A e \in Range(o) : e.op \notin {"drawFPS", "log FPS"}
NoDraw(o) == \A e \in Range(o) : e.op # "draw"

\* the clock value a running tick compared with lastFPS + 1000, and the one
\* it stored: the tick's timestamp, or in the arrow variant what updateFPS
\* read from performance.now()
ComparedTime == IF variant = "arrow" THEN reads'[1] ELSE lastTime'
StoredTime == IF variant = "arrow" THEN reads'[Len(reads')] ELSE lastTime'

\* C6 (as claimed): a tick later than lastFPS + 1000 emits frameCount, sets
\* lastFPS to the time read and leaves frameCount 0; any other tick emits
\* nothing, keeps lastFPS and adds one to frameCount.
C6_AsClaimed ==
  [][RunningTick =>
       IF ComparedTime > lastFPS + FPS_WINDOW
       THEN Emitted(out', frameCount) /\ lastFPS' = StoredTime /\ frameCount' = 0
       ELSE NoEmit(out') /\ lastFPS' = lastFPS /\ frameCount' = frameCount + 1]_vars

\* C6 (amended): a running tick whose clock read is later than
\* lastFPS + 1000 emits frameCount, sets lastFPS to the clock value and
\* resets frameCount to 0 before counting the tick itself, so frameCount is
\* 1 after it; any other running tick emits nothing, keeps lastFPS and adds
\* one to frameCount.
C6_SampleStep ==
  [][RunningTick =>
       IF ComparedTime > lastFPS + FPS_WINDOW
       THEN Emitted(out', frameCount) /\ lastFPS' = StoredTime /\ frameCount' = 1
       ELSE NoEmit(out') /\ lastFPS' = lastFPS /\ frameCount' = frameCount + 1]_vars

\* C6 witness: a tick has emitted an FPS of 2 or more and was counted.
C6_Witness ==
  /\ emitCount = 1
  /\ frameCount = 1
  /\ lastFPS > T0 + FPS_WINDOW
  /\ \E n \in 2..MaxTicks : Emitted(out, n)

\* C7: in game.ts and the flag variant, while every running tick so far came
\* no later than 1000 ms after the start nothing has been emitted, and the
\* first running tick later than that emits once, the number of running
\* ticks before it.
C7_FirstEmit ==
  [][(RunningTick /\ variant \in {"pause", "flag"} /\ lastTime <= T0 + FPS_WINDOW)
       => IF lastTime' > T0 + FPS_WINDOW
          THEN emitCount = 0 /\ emitCount' = 1 /\ Emitted(out', runTicks)
          ELSE emitCount' = 0 /\ NoEmit(out')]_vars

\* C7 witness: three running ticks within the window, then the emit of 3.
C7_Witness ==
  /\ variant \in {"pause", "flag"}
  /\ runTicks = 4
  /\ emitCount = 1
  /\ Emitted(out, 3)

\* a step that is one call of gameLoop: the handlers of key events change
\* the held keys or nothing, a timeout takes a timer
TickStep == GAMERUN' /\ UNCHANGED <<keys, flags>> /\ timers' >= timers

\* C8: a tick of game.ts that finds the game paused leaves position,
\* lastTime, lastFPS and frameCount alone, draws nothing and emits no FPS.
C8_PausedTickIdle ==
  [][(variant = "pause" /\ TickStep /\ paused')
       => /\ UNCHANGED <<position, lastTime, lastFPS, frameCount>>
          /\ NoDraw(out') /\ NoEmit(out')
          /\ emitCount' = emitCount]_vars

\* C8 witness: paused with a movement key held, the host clock a whole FPS
\* window past the last running tick.
C8_Witness ==
  /\ variant = "pause"
  /\ paused
  /\ isKeyPressed("d")
  /\ now > lastTime + FPS_WINDOW


\* nothing more can be delivered within the bounds of the model
Exhausted == runTicks >= MaxTicks \/ now > MaxTime

\* C9: GAMERUN, once true, stays true; every call of gameLoop leaves a next
\* call requested, directly or through a timer; and so, with the host
\* delivering what was requested, a running game goes on taking running
\* ticks until it is paused or the bounds are used up, and a paused game
\* with Escape held gets the tick that sees it.
C9_NeverStops ==
  /\ [][GAMERUN => GAMERUN']_vars
  /\ [][TickStep => rafQueue' + timers' >= 1]_vars
  /\ [](GAMERUN => rafQueue + timers >= 1)
  /\ (GAMERUN /\ ~paused) ~> (paused \/ Exhausted)
  /\ (paused /\ isKeyPressed("Escape"))
       ~> (~paused \/ ~isKeyPressed("Escape") \/ Exhausted)

\* C9 witness: the game was paused and resumed and has run since, a next
\* call pending.
C9_Witness ==
  /\ GAMERUN
  /\ variant = "pause"
  /\ ~paused
  /\ Log("Game Resumed") \in Range(out)
  /\ runTicks >= 2
  /\ rafQueue >= 1

\* the identifiers that name the same key as k
SameKey(k) == {j \in ClockKeys : toLowerCase(j) = toLowerCase(k)}
\* what a tick gets when it asks for k
Poll(k) == IF variant = "flag" THEN moveRight ELSE isKeyPressed(k)
PollKeys == IF variant = "flag" THEN {"d", "D"} ELSE ClockKeys

\* C10: a key-down of k makes every poll of the key held, in either case of
\* the identifier; a key-up makes it not held; and every other step, ticks
\* included, leaves the poll as it was.
C10_NoDebounce ==
  [][\A k \in PollKeys :
       /\ KeyDown(k) => \A j \in SameKey(k) : Poll(j)'
       /\ KeyUp(k) => \A j \in SameKey(k) : ~Poll(j)'
       /\ (\A j \in SameKey(k) : ~KeyDown(j) /\ ~KeyUp(j))
            => (Poll(k)' = Poll(k))]_vars

\* C10 witness: the key pressed as "D" is polled as held after two ticks
\* that moved the player right.
C10_Witness ==
  /\ Poll("d") /\ Poll("D")
  /\ "D" \notin keys
  /\ runTicks >= 3
  /\ position.x = <<START + 2 * SPEED, 0>>


\* one of the two keys of a direction is in the held set
Either(k1, k2) == k1 \in keys \/ k2 \in keys
\* the step of the arrow variant for the directions commanded
PairDirX == (IF Either("d", "arrowright") THEN 1 ELSE 0)
              - (IF Either("a", "arrowleft") THEN 1 ELSE 0)
PairDirY == (IF Either("s", "arrowdown") THEN 1 ELSE 0)
              - (IF Either("w", "arrowup") THEN 1 ELSE 0)
Inside(c) == Geq(c, RADIUS) /\ Leq(c, GridW - RADIUS)

\* C11: in the arrow variant a tick with dt > 0 steps along exactly the
\* directions of which at least one of the two keys is held: up = w or
\* arrowup, down = s or arrowdown, left = a or arrowleft, right = d or
\* arrowright; two keys of one direction count as one.
C11_EitherKey ==
  [][(RunningTick /\ variant = "arrow" /\ lastTime' > lastTime)
       => LET cx == Plus(position.x, StepOf(PairDirX, PairDirY))
              cy == Plus(position.y, StepOf(PairDirY, PairDirX))
          IN  /\ position'.x = IF Inside(cx) THEN cx ELSE position.x
              /\ position'.y = IF Inside(cy) THEN cy ELSE position.y]_vars

\* C11 witness: both keys for right are held and two ticks have moved the
\* player right by one step each.
C11_Witness ==
  /\ variant = "arrow"
  /\ "d" \in keys /\ "arrowright" \in keys
  /\ "w" \notin keys /\ "arrowup" \notin keys /\ "s" \notin keys
  /\ runTicks = 3
  /\ position = [x |-> <<START + 2 * SPEED, 0>>, y |-> <<START, 0>>]


\* C12: normalize of the zero vector is (0, 0), and a running tick on which
\* no direction is held leaves the position as it was, wherever the player
\* stands.
C12_ZeroIsNoOp ==
  [][(RunningTick /\ ~HeldUp /\ ~HeldDown /\ ~HeldLeft /\ ~HeldRight)
       => /\ normalize(ZeroVec) = ZeroVec
          /\ position' = position
          /\ variant # "arrow" => LogMovement(ZeroVec) \in Range(out')]_vars

\* C12 witness: nothing is held, two ticks have run and the player stands
\* on the upper bound of x and off the lattice of whole steps in y.
C12_Witness ==
  /\ keys = {} /\ ~moveUp /\ ~moveDown /\ ~moveLeft /\ ~moveRight
  /\ runTicks = 2
  /\ position.x = <<HighBound, 0>>
  /\ position.y[2] # 0
  /\ variant # "arrow" => LogMovement(ZeroVec) \in Range(out)


\* a canvas or a 2D context is missing
Missing == boot.canvases # Canvases \/ boot.contexts # Canvases

\* C13: with a canvas or a 2D context missing, the script ends in an error
\* and nothing else of it happens: GAMERUN stays false, no gameLoop call
\* runs or is pending, there is no player and no key listener, so key
\* events change nothing; and a script that failed stays failed.
C13_FatalInit ==
  /\ []((Missing /\ boot.stage # "load")
          => /\ boot.stage = "failed"
             /\ boot.error # "none"
             /\ ~GAMERUN
             /\ runTicks = 0 /\ rafQueue = 0 /\ timers = 0 /\ out = <<>>
             /\ ~boot.player /\ ~boot.listening
             /\ keys = {} /\ ~moveUp /\ ~moveDown /\ ~moveLeft /\ ~moveRight)
  /\ []((~Missing /\ boot.stage # "load")
          => boot.stage = "ready" /\ boot.error = "none")
  /\ [][boot.stage = "failed" => boot' = boot]_vars

\* C13 witness: the four canvases are there, the 2D context of one is not,
\* and the script has thrown.
C13_Witness ==
  /\ boot.stage = "failed"
  /\ boot.canvases = Canvases
  /\ boot.contexts = Canvases \ {"ui"}
  /\ boot.error = "2D context is not supported on one or more canvases"


\* the place of an output in the body of gameLoop
Rank(e) == CASE e.op \in {"Game Paused", "Game Resumed"} -> 0
             [] e.op = "drawFPS" -> 1
             [] e.op = "log FPS" -> 2
             [] e.op = "log Player Movement" -> 3
             [] e.op = "draw" -> 4

\* C14: a running tick sets lastTime to its timestamp, writes its outputs
\* in the order of the loop body (FPS sample, movement, redraw), issues
\* exactly one redraw, the last output, of the position the move left, and
\* leaves a next call requested.
C14_TickOrder ==
  [][RunningTick
       => /\ lastTime' >= lastTime
          /\ variant # "arrow" => lastTime' = now'
          /\ \A i \in 1..Len(out'), j \in 1..Len(out') :
               i < j => Rank(out'[i]) < Rank(out'[j])
          /\ Cardinality({i \in 1..Len(out') : out'[i].op = "draw"}) = 1
          /\ out'[Len(out')] = Draw(position')
          /\ rafQueue' + timers' >= 1]_vars

\* C14 witness: a tick of game.ts has emitted the FPS, moved the player a
\* second step to the right and drawn it there.
C14_Witness ==
  /\ variant = "pause"
  /\ Len(out) = 4
  /\ out[1].op = "drawFPS" /\ out[2].op = "log FPS"
  /\ out[3].op = "log Player Movement"
  /\ out[4] = Draw(position)
  /\ position.x = <<START + 2 * SPEED, 0>>


\* a step that is a call of gameLoop: it delivers a time, counts a tick or
\* writes the outputs of the call
LoopCall == now' # now \/ runTicks' # runTicks \/ out' # out \/ paused' # paused

\* C15: at most one call of gameLoop is requested at any time, as an
\* animation frame or as a timer, exactly one once the loop has started;
\* every call leaves exactly one; and a call leaves the held keys and the
\* move flags as it found them.
C15_NoOverlap ==
  /\ [](rafQueue + timers <= 1)
  /\ [](GAMERUN <=> rafQueue + timers = 1)
  /\ [][LoopCall => /\ rafQueue' + timers' = 1
                    /\ UNCHANGED <<keys, flags>>]_vars

\* C15 witness: the flag variant, three ticks taken with right held, the
\* next call waiting in a timer and none in the animation-frame queue.
C15_Witness ==
  /\ variant = "flag"
  /\ moveRight
  /\ runTicks >= 3
  /\ timers = 1 /\ rafQueue = 0


\* C16: in game.ts and the flag variant the centre of the player stays on
\* the grid: 0 <= x <= GRID_COLS and 0 <= y <= GRID_ROWS.
C16_GridBounds ==
  variant # "arrow" =>
    /\ Geq(position.x, 0) /\ Leq(position.x, GridW)
    /\ Geq(position.y, 0) /\ Leq(position.y, GridH)

\* C16 witness: with right held the player stands on x = GRID_COLS after a
\* diagonal step that moved y only.
C16_Witness ==
  /\ variant # "arrow"
  /\ HeldRight /\ HeldDown
  /\ position.x = <<GridW, 0>>
  /\ position.y[2] = 1
  /\ runTicks > 0

\* C17: in game.ts every step that changes paused is a tick that finds
\* Escape in the held set; key events and ticks without Escape leave it.
C17_PauseNeedsEscape ==
  [][(variant = "pause" /\ paused' # paused)
       => /\ "escape" \in keys
          /\ UNCHANGED keys
          /\ pausePressed']_vars

\* C17 witness: the game is paused, only d is held, and the latest tick
\* found Escape released.
C17_Witness ==
  /\ variant = "pause"
  /\ paused
  /\ keys = {"d"}
  /\ ~pausePressed


\* the direction a key of the event-driven variant stands for
KeyDX(k) == CASE k \in {"d", "D"} -> 1 [] k \in {"a", "A"} -> -1 [] OTHER -> 0
KeyDY(k) == CASE k \in {"s", "S"} -> 1 [] k \in {"w", "W"} -> -1 [] OTHER -> 0
OnGrid(c) == c >= 0 /\ c <= GridW

\* C18: in the event-driven variant a keydown of w/a/s/d in either case
\* moves one coordinate by 0.5 when the result is within [0, GRID] and
\* otherwise leaves the position; any other key leaves it; every keydown
\* ends with a redraw of the position it left; and both coordinates are
\* multiples of 0.5 within [0, 10].
C18_HalfCellSteps ==
  /\ [](variant = "event"
          => /\ position.x[2] = 0 /\ position.y[2] = 0
             /\ position.x[1] % EVENT_SPEED = 0 /\ OnGrid(position.x[1])
             /\ position.y[1] % EVENT_SPEED = 0 /\ OnGrid(position.y[1]))
  /\ [][\A k \in EventKeys : keydownMove(k) =>
          LET cx == position.x[1] + EVENT_SPEED * KeyDX(k)
              cy == position.y[1] + EVENT_SPEED * KeyDY(k)
          IN  /\ position' = IF OnGrid(cx) /\ OnGrid(cy)
                             THEN [x |-> <<cx, 0>>, y |-> <<cy, 0>>]
                             ELSE position
              /\ out'[Len(out')] = Draw(position')]_vars

\* C18 witness: the player has been walked to the corner (0, GRID_ROWS) and
\* drawn there.
C18_Witness ==
  /\ variant = "event"
  /\ position = [x |-> <<0, 0>>, y |-> <<GridH, 0>>]
  /\ out = updateContext(position)


====
